---- MODULE Spec2Model ----
(***************************************************************************)
(* Stock-claim transaction of the Telegram shop bot                        *)
(* (internal/store/repository.go: ClaimOneCodeTx) and the balance checkout *)
(* flow that calls it (Bot.handleBuyProduct / Bot.handleConfirmBuy).       *)
(*                                                                         *)
(* The codes table is modelled with its committed contents (codes), the    *)
(* row locks taken by SELECT ... FOR UPDATE on PostgreSQL (lockedBy), the  *)
(* single write lock of SQLite (writer) and each transaction's             *)
(* uncommitted write (calls[c].wrote).  Nullable columns hold 0 for NULL,  *)
(* the Go zero value of a scanned Code is row id 0 with payload "".        *)
(*                                                                         *)
(* Further parts: CreateOrderWithBalance statement by statement (otx), the *)
(* admin server's authMiddleware (web) and the bot's custom-deposit prompt *)
(* (userStates, texts, prompts).                                           *)
(***************************************************************************)
EXTENDS Integers, FiniteSets, Sequences, TLC

\* ---------------------------------------------------------------- bounds
MaxCodes == 2
NumCalls == 2
MaxOrders == 2
MaxFaults == 1

\* ------------------------------------------------------- database content
Products == {1, 2}
PriceCents == <<2, 0>>
InitBalances == {0, 4}
CodeText == <<"A", "B", "C", "D", "E", "F">>

CodeIds == 1..MaxCodes
Calls == 1..NumCalls
OrderIds == 1..MaxOrders
Users == {1}

VARIABLES strategy, codes, lockedBy, writer, faultsLeft, calls,
          orders, balance, buyers, web, otx, userStates, texts, prompts

vars == <<strategy, codes, lockedBy, writer, faultsLeft, calls,
          orders, balance, buyers, web, otx, userStates, texts, prompts>>

dbVars == <<codes, lockedBy, writer>>
shopVars == <<orders, balance, buyers>>
orderTxVars == <<otx>>
botVars == <<userStates, texts, prompts>>
otherVars == <<web, otx, userStates, texts, prompts>>

\* ------------------------------------------------------------ store.Code
NewCode(id, p) ==
    [id |-> id, product_id |-> p, code |-> CodeText[id],
     is_sold |-> FALSE, sold_at |-> 0, order_id |-> 0]

ZeroCode ==
    [id |-> 0, product_id |-> 0, code |-> "",
     is_sold |-> FALSE, sold_at |-> 0, order_id |-> 0]

IdleCall ==
    [pc |-> "idle", productID |-> 0, orderID |-> 0, code |-> ZeroCode,
     wrote |-> ZeroCode, claimedCode |-> "", result |-> "", err |-> "none",
     ctxDone |-> FALSE]

IdleBuyer ==
    [pc |-> "idle", user |-> 0, product |-> 0, order |-> 0,
     msg |-> "", msgCode |-> ""]

\* IsPostgres(db): the dialect of the handle, fixed when the store is opened
IsPostgres == strategy = "postgres"

\* WHERE product_id = ? alone
AnyOfProduct(cs, p) == {r \in DOMAIN cs : cs[r].product_id = p}

\* WHERE product_id = ? AND is_sold = false
Unsold(cs, p) ==
    {r \in DOMAIN cs : cs[r].product_id = p /\ ~cs[r].is_sold}

\* CountAvailableCodes: SELECT count(*) over the committed rows
CountAvailableCodes(p) == Cardinality(Unsold(codes, p))

\* a plain SELECT, which takes no notice of row locks
NoSkipLocked(rows, locks) == rows

\* FOR UPDATE SKIP LOCKED: rows locked by another transaction are passed over
SkipLocked(rows, locks) == {r \in rows : locks[r] = 0}

\* SET is_sold = true, sold_at = NOW(), order_id = ?
MarkSold(row, t, o) ==
    [row EXCEPT !.is_sold = TRUE, !.sold_at = t, !.order_id = o]

\* the table as transaction c sees it: committed rows plus its own write
View(c) ==
    [r \in CodeIds |-> IF calls[c].wrote.id = r THEN calls[c].wrote ELSE codes[r]]

\* tx.Where("order_id = ?", orderID).First(&code): lowest id first
FirstByOrder(cs, o) ==
    LET hit == {r \in DOMAIN cs : cs[r].order_id = o}
    IN  IF hit = {} THEN ZeroCode
        ELSE cs[CHOOSE r \in hit : \A q \in hit : r <= q]

\* NOW() / CURRENT_TIMESTAMP as transaction c reads it: calls begin in the
\* order of their numbers, so the number stands for the time (never NULL)
Timestamp(c) == c

Max(S) == IF S = {} THEN 0 ELSE CHOOSE x \in S : \A y \in S : y <= x

\* --------------------------------------------------- httpadmin.Server
\* the server as NewServer built it, before any request
NoRequest ==
    [sessionCookie |-> "", authHeader |-> <<>>, tokenCookie |-> "",
     path |-> <<>>, xhr |-> FALSE, acceptJSON |-> FALSE]

NewServer(adminToken, hasSM, sessions, hasJWT, jwts) ==
    [adminToken |-> adminToken, sessionManager |-> hasSM, sessions |-> sessions,
     jwtService |-> hasJWT, jwts |-> jwts,
     req |-> NoRequest, served |-> 0, ran |-> FALSE, status |-> 0,
     location |-> "", role |-> ""]

InitWeb == web = NewServer("adm", FALSE, {}, FALSE, {})

\* ------------------------------------------- CreateOrderWithBalance calls
ZeroOrder ==
    [id |-> 0, user_id |-> 0, product_id |-> 0, amount_cents |-> 0,
     payment_amount |-> 0, balance_used |-> 0,
     status |-> "", paid_at |-> 0, delivered_at |-> 0]

IdleOrderTx ==
    [pc |-> "idle", userID |-> 0, productID |-> 0, amountCents |-> 0,
     useBalance |-> FALSE, user |-> 0, order |-> ZeroOrder, deducted |-> 0,
     result |-> 0, err |-> "none"]

InitOrderTx == otx = [t \in Calls |-> IdleOrderTx]

\* -------------------------------------------------- Bot: text updates
IdleText == [pc |-> "idle", from |-> 0, text |-> "", outcome |-> "", created |-> 0]

InitBot ==
    /\ userStates = [u \in Users |-> ""]
    /\ texts = [g \in Calls |-> IdleText]
    /\ prompts = 0

InitOthers == InitWeb /\ InitOrderTx /\ InitBot

\* ------------------------------------------------------------------ Init
Init ==
    /\ strategy \in {"postgres", "sqlite"}
    /\ \E k \in 0..MaxCodes :
          codes = [r \in CodeIds |-> NewCode(r, IF r <= k THEN 1 ELSE 2)]
    /\ lockedBy = [r \in CodeIds |-> 0]
    /\ writer = 0
    /\ faultsLeft = MaxFaults
    /\ calls = [c \in Calls |-> IdleCall]
    /\ orders = <<>>
    /\ balance = [u \in Users |-> 0]
    /\ buyers = [b \in Calls |-> IdleBuyer]
    /\ InitOthers

\* ------------------------------------------------------- ClaimOneCodeTx
\* a direct call ClaimOneCodeTx(ctx, db, p, o); db.Transaction begins
StartClaim(c, p, o) ==
    /\ calls[c].pc = "idle"
    /\ \A d \in Calls : d < c => calls[d].pc # "idle"
    /\ o <= 1 + Max({calls[d].orderID : d \in Calls})
    /\ calls' = [calls EXCEPT ![c] =
                    [IdleCall EXCEPT !.pc = "begin", !.productID = p, !.orderID = o]]
    /\ UNCHANGED <<strategy, otherVars, dbVars, faultsLeft, shopVars>>

\* PostgreSQL: SELECT ... LIMIT 1 FOR UPDATE SKIP LOCKED, Scan(&code).
\* Scan reports no error for an empty result and leaves code zero-valued.
PgSelect(c) ==
    /\ calls[c].pc = "begin"
    /\ IsPostgres
    /\ LET cand == SkipLocked(Unsold(codes, calls[c].productID), lockedBy)
       IN  IF cand = {}
           THEN /\ calls' = [calls EXCEPT ![c].pc = "pg_selected",
                                          ![c].code = ZeroCode]
                /\ UNCHANGED lockedBy
           ELSE \E r \in cand :
                /\ calls' = [calls EXCEPT ![c].pc = "pg_selected",
                                          ![c].code = codes[r]]
                /\ lockedBy' = [lockedBy EXCEPT ![r] = c]
    /\ UNCHANGED <<strategy, otherVars, codes, writer, faultsLeft, shopVars>>

\* PostgreSQL: UPDATE codes SET ... WHERE id = code.ID; claimedCode = code.Code
PgUpdate(c) ==
    /\ calls[c].pc = "pg_selected"
    /\ LET hit == {r \in CodeIds : r = calls[c].code.id}
       IN  IF hit = {}
           THEN calls' = [calls EXCEPT ![c].pc = "pg_updated",
                                       ![c].claimedCode = calls[c].code.code]
           ELSE \E r \in hit :
                calls' = [calls EXCEPT ![c].pc = "pg_updated",
                             ![c].wrote = MarkSold(codes[r], Timestamp(c), calls[c].orderID),
                             ![c].claimedCode = calls[c].code.code]
    /\ UNCHANGED <<strategy, otherVars, codes, lockedBy, writer, faultsLeft, shopVars>>

\* SQLite: UPDATE codes SET ... WHERE id IN (SELECT id ... LIMIT 1).
\* The statement needs the database write lock; RowsAffected = 0 returns
\* ErrNoStock and the (empty) transaction rolls back.
SqUpdate(c) ==
    /\ calls[c].pc = "begin"
    /\ ~IsPostgres
    /\ writer = 0
    /\ LET cand == Unsold(codes, calls[c].productID)
       IN  IF cand = {}
           THEN /\ calls' = [calls EXCEPT ![c].pc = "returned",
                                          ![c].err = "ErrNoStock",
                                          ![c].result = ""]
                /\ UNCHANGED writer
           ELSE \E r \in cand :
                /\ calls' = [calls EXCEPT ![c].pc = "sq_updated",
                                ![c].wrote = MarkSold(codes[r], Timestamp(c), calls[c].orderID)]
                /\ writer' = c
    /\ UNCHANGED <<strategy, otherVars, codes, lockedBy, faultsLeft, shopVars>>

\* SQLite: tx.Where("order_id = ?", orderID).First(&code); claimedCode = code.Code
SqFetch(c) ==
    /\ calls[c].pc = "sq_updated"
    /\ LET row == FirstByOrder(View(c), calls[c].orderID)
       IN  calls' = [calls EXCEPT ![c].pc = "sq_fetched",
                                  ![c].code = row,
                                  ![c].claimedCode = row.code]
    /\ UNCHANGED <<strategy, otherVars, dbVars, faultsLeft, shopVars>>

\* a transaction that ends and leaves its locks in place
KeepLocks(c) ==
    /\ lockedBy' = lockedBy
    /\ writer' = writer

\* the locks a transaction holds are released when it ends
ReleaseLocks(c) ==
    /\ lockedBy' = [r \in CodeIds |-> IF lockedBy[r] = c THEN 0 ELSE lockedBy[r]]
    /\ writer' = IF writer = c THEN 0 ELSE writer

\* the callback returned nil: COMMIT, then return claimedCode, nil
Commit(c) ==
    /\ calls[c].pc \in {"pg_updated", "sq_fetched"}
    /\ codes' = View(c)
    /\ ReleaseLocks(c)
    /\ calls' = [calls EXCEPT ![c].pc = "returned",
                              ![c].err = "nil",
                              ![c].result = calls[c].claimedCode,
                              ![c].wrote = ZeroCode]
    /\ UNCHANGED <<strategy, otherVars, faultsLeft, shopVars>>

\* a statement or the commit fails (connectivity, driver): the callback
\* returns the error, the transaction rolls back, the call returns "", err
StorageFailure(c) ==
    /\ calls[c].pc \in {"begin", "pg_selected", "pg_updated", "sq_updated", "sq_fetched"}
    /\ faultsLeft > 0
    /\ faultsLeft' = faultsLeft - 1
    /\ ReleaseLocks(c)
    /\ calls' = [calls EXCEPT ![c].pc = "returned",
                              ![c].err = "storage",
                              ![c].result = "",
                              ![c].wrote = ZeroCode]
    /\ UNCHANGED <<strategy, otherVars, codes, shopVars>>

ClaimStep(c) ==
    \/ PgSelect(c)
    \/ PgUpdate(c)
    \/ SqUpdate(c)
    \/ SqFetch(c)
    \/ Commit(c)
    \/ StorageFailure(c)

Next ==
    \/ \E c \in Calls, p \in Products, o \in OrderIds : StartClaim(c, p, o)
    \/ \E c \in Calls : ClaimStep(c)

Spec == Init /\ [][Next]_vars

\* the caller cancels ctx while the call is in flight.  ClaimOneCodeTx never
\* hands ctx to the store (db.Transaction runs on db, not db.WithContext(ctx)),
\* so nothing but the flag changes
Cancel(c) ==
    /\ calls[c].pc \notin {"idle", "returned"}
    /\ ~calls[c].ctxDone
    /\ calls' = [calls EXCEPT ![c].ctxDone = TRUE]
    /\ UNCHANGED <<strategy, otherVars, dbVars, faultsLeft, shopVars>>

NextCancel ==
    \/ \E c \in Calls, p \in Products, o \in OrderIds : StartClaim(c, p, o)
    \/ \E c \in Calls : ClaimStep(c)
    \/ \E c \in Calls : Cancel(c)

SpecCancel == Init /\ [][NextCancel]_vars

\* the steps of a claim when the storage does not fail
ClaimProgress(c) ==
    \/ PgSelect(c)
    \/ PgUpdate(c)
    \/ SqUpdate(c)
    \/ SqFetch(c)
    \/ Commit(c)

NextLive ==
    \/ \E c \in Calls, p \in Products, o \in OrderIds : StartClaim(c, p, o)
    \/ \E c \in Calls : ClaimProgress(c)

\* every goroutine running a claim keeps being scheduled, and the store
\* answers every statement it is given
SpecLive ==
    Init /\ [][NextLive]_vars /\ \A c \in Calls : WF_vars(ClaimProgress(c))

\* a caller that issues its calls one after the other, each with an order ID
\* of its own
SeqClaim(c, p, o) ==
    /\ \A d \in Calls : calls[d].pc \in {"idle", "returned"}
    /\ \A d \in Calls : calls[d].orderID # o
    /\ StartClaim(c, p, o)

NextSeq ==
    \/ \E c \in Calls, p \in Products, o \in OrderIds : SeqClaim(c, p, o)
    \/ \E c \in Calls : ClaimProgress(c)

SpecSeq == Init /\ [][NextSeq]_vars

\* ------------------------------------------------------------ store.Order
\* AddBalance(tx, userID, amount, ...): the balance moves by amount
AddBalance(bal, u, amount) == [bal EXCEPT ![u] = bal[u] + amount]

\* CreateOrder: PaymentAmount = AmountCents, Status "pending"
CreateOrder(id, u, p, amountCents) ==
    [id |-> id, user_id |-> u, product_id |-> p, amount_cents |-> amountCents,
     payment_amount |-> amountCents, balance_used |-> 0,
     status |-> "pending", paid_at |-> 0, delivered_at |-> 0]

\* a split that takes the whole balance whatever the amount
BalanceUsedUncapped(userBalance, amountCents, useBalance) ==
    IF useBalance /\ userBalance > 0 THEN userBalance ELSE 0

\* CreateOrderWithBalance: the split of amountCents over balance and payment
BalanceUsed(userBalance, amountCents, useBalance) ==
    IF useBalance /\ userBalance > 0
    THEN IF userBalance >= amountCents THEN amountCents ELSE userBalance
    ELSE 0

\* CreateOrderWithBalance: the order row its transaction commits
CreateOrderWithBalance(id, u, p, amountCents, useBalance, userBalance, t) ==
    LET balanceUsed == BalanceUsed(userBalance, amountCents, useBalance)
        paymentAmount == amountCents - balanceUsed
        paid == balanceUsed > 0 /\ paymentAmount = 0
    IN  [id |-> id, user_id |-> u, product_id |-> p, amount_cents |-> amountCents,
         payment_amount |-> paymentAmount, balance_used |-> balanceUsed,
         status |-> IF paid THEN "paid" ELSE "pending",
         paid_at |-> IF paid THEN t ELSE 0, delivered_at |-> 0]

\* a failed delivery that also takes back the balance recorded on the order
MarkFailedRefunded(ords, o) ==
    [ords EXCEPT ![o].status = "failed_delivery", ![o].balance_used = 0]

\* b.db.Model(order).Update("status", "failed_delivery")
MarkFailedDelivery(ords, o) == [ords EXCEPT ![o].status = "failed_delivery"]

\* b.db.Model(order).Updates(status = "delivered", delivered_at = now)
MarkDelivered(ords, o, t) ==
    [ords EXCEPT ![o].status = "delivered", ![o].delivered_at = t]

\* the order a fulfilment claim is bound to, with the product in its place
ClaimProductAsOrder(order, p) == p

\* store.ClaimOneCodeTx(ctx, b.db, product.ID, order.ID): the order argument
ClaimOrderID(order, p) == order.id

\* ------------------------------------------------------- Bot, the checkout
\* handleConfirmBuy from its order creation on: the order is created (and the
\* balance deducted) in one transaction; an order with nothing left to pay
\* goes on to the claim, any other order waits for the payment gateway
ConfirmBuy(b, u, p, useBalance) ==
    LET id == Len(orders) + 1
        order == IF useBalance
                 THEN CreateOrderWithBalance(id, u, p, PriceCents[p], TRUE,
                                             balance[u], Timestamp(b))
                 ELSE CreateOrder(id, u, p, PriceCents[p])
    IN  /\ orders' = Append(orders, order)
        /\ balance' = IF order.balance_used > 0
                      THEN AddBalance(balance, u, 0 - order.balance_used)
                      ELSE balance
        /\ IF order.payment_amount = 0
           THEN /\ buyers' = [buyers EXCEPT ![b] =
                      [IdleBuyer EXCEPT !.pc = "claiming", !.user = u,
                                        !.product = p, !.order = id]]
                /\ calls' = [calls EXCEPT ![b] =
                      [IdleCall EXCEPT !.pc = "begin", !.productID = p,
                                       !.orderID = ClaimOrderID(order, p)]]
           ELSE /\ buyers' = [buyers EXCEPT ![b] =
                      [IdleBuyer EXCEPT !.pc = "done", !.user = u, !.product = p,
                                        !.order = id, !.msg = "order_created"]]
                /\ UNCHANGED calls
        /\ UNCHANGED <<strategy, otherVars, dbVars, faultsLeft>>

\* callback "buy:<p>": handleBuyProduct up to its stock pre-check
BuyProduct(b, u, p) ==
    /\ buyers[b].pc = "idle"
    /\ \A d \in Calls : d < b => buyers[d].pc # "idle"
    /\ buyers' = [buyers EXCEPT ![b] =
          IF CountAvailableCodes(p) = 0
          THEN [IdleBuyer EXCEPT !.pc = "done", !.user = u, !.product = p,
                                 !.msg = "out_of_stock"]
          ELSE [IdleBuyer EXCEPT !.pc = "in_stock", !.user = u, !.product = p]]
    /\ UNCHANGED <<strategy, otherVars, dbVars, faultsLeft, calls, orders, balance>>

\* handleBuyProduct, balance > 0: ask whether to use the balance
BuyPrompt(b) ==
    /\ buyers[b].pc = "in_stock"
    /\ balance[buyers[b].user] > 0
    /\ buyers' = [buyers EXCEPT ![b].pc = "prompted",
                                ![b].msg = "use_balance_prompt"]
    /\ UNCHANGED <<strategy, otherVars, dbVars, faultsLeft, calls, orders, balance>>

\* handleBuyProduct, no balance: b.handleConfirmBuy(callback, productID, false)
BuyDirect(b) ==
    /\ buyers[b].pc = "in_stock"
    /\ balance[buyers[b].user] <= 0
    /\ ConfirmBuy(b, buyers[b].user, buyers[b].product, FALSE)

\* callback "confirm_buy:<p>:<1|0>" from the buttons of the prompt
ConfirmFromPrompt(b, useBalance) ==
    /\ buyers[b].pc = "prompted"
    /\ ConfirmBuy(b, buyers[b].user, buyers[b].product, useBalance)

\* callback "confirm_buy:<p>:<1|0>" with no "buy:" before it in this session
ConfirmCallback(b, u, p, useBalance) ==
    /\ buyers[b].pc = "idle"
    /\ \A d \in Calls : d < b => buyers[d].pc # "idle"
    /\ ConfirmBuy(b, u, p, useBalance)

\* a fulfilment that claims again for the same order when the claim failed
AfterClaimRetry(b) ==
    /\ buyers[b].pc = "claiming"
    /\ calls[b].pc = "returned"
    /\ IF calls[b].err # "nil"
       THEN /\ calls' = [calls EXCEPT ![b] =
                  [IdleCall EXCEPT !.pc = "begin",
                                   !.productID = calls[b].productID,
                                   !.orderID = calls[b].orderID]]
            /\ UNCHANGED <<orders, buyers>>
       ELSE /\ orders' = MarkDelivered(orders, buyers[b].order, Timestamp(b))
            /\ buyers' = [buyers EXCEPT ![b].pc = "done", ![b].msg = "order_paid",
                                        ![b].msgCode = calls[b].result]
            /\ UNCHANGED calls
    /\ UNCHANGED <<strategy, otherVars, dbVars, faultsLeft, balance>>

\* handleConfirmBuy after ClaimOneCodeTx returned: err != nil marks the order
\* failed_delivery and sends no_stock; otherwise the order is marked
\* delivered and the code is sent
AfterClaim(b) ==
    /\ buyers[b].pc = "claiming"
    /\ calls[b].pc = "returned"
    /\ IF calls[b].err # "nil"
       THEN /\ orders' = MarkFailedDelivery(orders, buyers[b].order)
            /\ buyers' = [buyers EXCEPT ![b].pc = "done", ![b].msg = "no_stock"]
       ELSE /\ orders' = MarkDelivered(orders, buyers[b].order, Timestamp(b))
            /\ buyers' = [buyers EXCEPT ![b].pc = "done", ![b].msg = "order_paid",
                                        ![b].msgCode = calls[b].result]
    /\ UNCHANGED <<strategy, otherVars, dbVars, faultsLeft, calls, balance>>

InitCheckout ==
    /\ strategy \in {"postgres", "sqlite"}
    /\ \E k \in 0..MaxCodes :
          codes = [r \in CodeIds |-> NewCode(r, IF r <= k THEN 1 ELSE 2)]
    /\ lockedBy = [r \in CodeIds |-> 0]
    /\ writer = 0
    /\ faultsLeft = MaxFaults
    /\ calls = [c \in Calls |-> IdleCall]
    /\ orders = <<>>
    /\ balance \in [Users -> InitBalances]
    /\ buyers = [b \in Calls |-> IdleBuyer]
    /\ InitOthers

NextCheckout ==
    \/ \E b \in Calls, u \in Users, p \in Products : BuyProduct(b, u, p)
    \/ \E b \in Calls : BuyPrompt(b)
    \/ \E b \in Calls : BuyDirect(b)
    \/ \E b \in Calls, ub \in BOOLEAN : ConfirmFromPrompt(b, ub)
    \/ \E b \in Calls, u \in Users, p \in Products, ub \in BOOLEAN :
          ConfirmCallback(b, u, p, ub)
    \/ \E b \in Calls : ClaimStep(b)
    \/ \E b \in Calls : AfterClaim(b)

SpecCheckout == InitCheckout /\ [][NextCheckout]_vars

\* an ignored order update that failed and also put the claimed row back
OrderUpdateLostUndo(b) ==
    /\ buyers[b].pc = "claiming"
    /\ calls[b].pc = "returned"
    /\ faultsLeft > 0
    /\ faultsLeft' = faultsLeft - 1
    /\ codes' = [r \in CodeIds |->
                    IF codes[r].order_id = buyers[b].order
                    THEN NewCode(r, codes[r].product_id) ELSE codes[r]]
    /\ buyers' = [buyers EXCEPT ![b].pc = "done",
                     ![b].msg = IF calls[b].err # "nil" THEN "no_stock" ELSE "order_paid",
                     ![b].msgCode = calls[b].result]
    /\ UNCHANGED <<strategy, otherVars, lockedBy, writer, calls, orders, balance>>

\* handleConfirmBuy after the claim when its order update fails (or the
\* process stops before it): b.db.Model(order).Update(...) has its error
\* dropped, the order row stays as it was and the message is still sent
OrderUpdateLost(b) ==
    /\ buyers[b].pc = "claiming"
    /\ calls[b].pc = "returned"
    /\ faultsLeft > 0
    /\ faultsLeft' = faultsLeft - 1
    /\ buyers' = [buyers EXCEPT ![b].pc = "done",
                     ![b].msg = IF calls[b].err # "nil" THEN "no_stock" ELSE "order_paid",
                     ![b].msgCode = calls[b].result]
    /\ UNCHANGED <<strategy, otherVars, dbVars, calls, orders, balance>>

\* the checkout with the store answering every statement of the claim and
\* failing, if it fails, on the order update that follows
NextDelivery ==
    \/ \E b \in Calls, u \in Users, p \in Products : BuyProduct(b, u, p)
    \/ \E b \in Calls : BuyPrompt(b)
    \/ \E b \in Calls : BuyDirect(b)
    \/ \E b \in Calls, ub \in BOOLEAN : ConfirmFromPrompt(b, ub)
    \/ \E b \in Calls, u \in Users, p \in Products, ub \in BOOLEAN :
          ConfirmCallback(b, u, p, ub)
    \/ \E b \in Calls : ClaimProgress(b)
    \/ \E b \in Calls : AfterClaim(b)
    \/ \E b \in Calls : OrderUpdateLost(b)

SpecDelivery == InitCheckout /\ [][NextDelivery]_vars

\* ------------------------------------ CreateOrderWithBalance, by statement
\* the amounts and balances the calls are tried with
Amounts == {0, 2, 5}
OrderBalances == {0 - 1, 0, 1, 4}

\* db.Transaction(func(tx)...) begins
BeginOrderTx(t, u, p, amountCents, useBalance) ==
    /\ otx[t].pc = "idle"
    /\ \A d \in Calls : d < t => otx[d].pc # "idle"
    /\ otx' = [otx EXCEPT ![t] =
                  [IdleOrderTx EXCEPT !.pc = "begin", !.userID = u, !.productID = p,
                                      !.amountCents = amountCents,
                                      !.useBalance = useBalance]]
    /\ UNCHANGED <<strategy, dbVars, faultsLeft, calls, shopVars, web, botVars>>

\* tx.First(&user, userID): the committed balance
OtxReadUser(t) ==
    /\ otx[t].pc = "begin"
    /\ otx' = [otx EXCEPT ![t].pc = "read",
                          ![t].user = balance[otx[t].userID]]
    /\ UNCHANGED <<strategy, dbVars, faultsLeft, calls, shopVars, web, botVars>>

\* the split, then tx.Create(order) with Status "pending" (the row gets its
\* place in the table when the transaction commits)
OtxCreate(t) ==
    /\ otx[t].pc = "read"
    /\ LET row == CreateOrderWithBalance(0, otx[t].userID, otx[t].productID,
                                         otx[t].amountCents, otx[t].useBalance,
                                         otx[t].user, Timestamp(t))
       IN  otx' = [otx EXCEPT ![t].pc = "created",
                      ![t].order = [row EXCEPT !.status = "pending", !.paid_at = 0]]
    /\ UNCHANGED <<strategy, dbVars, faultsLeft, calls, shopVars, web, botVars>>

\* if balanceUsed > 0 { AddBalance(tx, userID, -balanceUsed, ...) }
OtxDeduct(t) ==
    /\ otx[t].pc = "created"
    /\ otx' = [otx EXCEPT
                  ![t].pc = IF /\ otx[t].order.balance_used > 0
                               /\ otx[t].order.payment_amount = 0
                            THEN "deducted" ELSE "ready",
                  ![t].deducted = otx[t].order.balance_used]
    /\ UNCHANGED <<strategy, dbVars, faultsLeft, calls, shopVars, web, botVars>>

\* if paymentAmount == 0 { order.Status = "paid"; order.PaidAt = &now; tx.Save }
OtxSave(t) ==
    /\ otx[t].pc = "deducted"
    /\ otx' = [otx EXCEPT ![t].pc = "ready",
                          ![t].order.status = "paid",
                          ![t].order.paid_at = Timestamp(t)]
    /\ UNCHANGED <<strategy, dbVars, faultsLeft, calls, shopVars, web, botVars>>

\* the callback returned nil: COMMIT; return order, nil
OtxCommit(t) ==
    /\ otx[t].pc = "ready"
    /\ LET id == Len(orders) + 1
           row == [otx[t].order EXCEPT !.id = id]
       IN  /\ orders' = Append(orders, row)
           /\ balance' = IF otx[t].deducted > 0
                         THEN AddBalance(balance, otx[t].userID, 0 - otx[t].deducted)
                         ELSE balance
           /\ otx' = [otx EXCEPT ![t].pc = "returned", ![t].order = row,
                                 ![t].result = id, ![t].err = "nil"]
    /\ UNCHANGED <<strategy, dbVars, faultsLeft, calls, buyers, web, botVars>>

\* a rollback that leaves the deduction of the transaction in the balance
RolledBackKeepsDeduction(bal, t) ==
    IF otx[t].deducted > 0
    THEN AddBalance(bal, otx[t].userID, 0 - otx[t].deducted)
    ELSE bal

\* the balances after db.Transaction rolled back: as they were
RolledBack(bal, t) == bal

\* a statement fails: the callback returns err, the transaction rolls back,
\* return nil, err
OtxFailure(t) ==
    /\ otx[t].pc \in {"begin", "read", "created", "deducted", "ready"}
    /\ faultsLeft > 0
    /\ faultsLeft' = faultsLeft - 1
    /\ balance' = RolledBack(balance, t)
    /\ otx' = [otx EXCEPT ![t].pc = "returned", ![t].result = 0,
                          ![t].err = "storage"]
    /\ UNCHANGED <<strategy, dbVars, calls, orders, buyers, web, botVars>>

InitOrder ==
    /\ strategy = "sqlite"
    /\ codes = [r \in CodeIds |-> NewCode(r, 1)]
    /\ lockedBy = [r \in CodeIds |-> 0]
    /\ writer = 0
    /\ faultsLeft = MaxFaults
    /\ calls = [c \in Calls |-> IdleCall]
    /\ orders = <<>>
    /\ balance \in [Users -> OrderBalances]
    /\ buyers = [b \in Calls |-> IdleBuyer]
    /\ InitOthers

NextOrder ==
    \/ \E t \in Calls, u \in Users, a \in Amounts, ub \in BOOLEAN :
          BeginOrderTx(t, u, 1, a, ub)
    \/ \E t \in Calls : OtxReadUser(t)
    \/ \E t \in Calls : OtxCreate(t)
    \/ \E t \in Calls : OtxDeduct(t)
    \/ \E t \in Calls : OtxSave(t)
    \/ \E t \in Calls : OtxCommit(t)
    \/ \E t \in Calls : OtxFailure(t)

SpecOrder == InitOrder /\ [][NextOrder]_vars

\* ------------------------------------------------ Server.authMiddleware
\* the requests tried: a session cookie, an Authorization header as the
\* pieces strings.SplitN(h, " ", 2) cuts it into, an admin_token cookie
\* ("" when the cookie is absent), the path segments and two headers
SessionIds == {"", "s1"}
AuthHeaders ==
    {<<>>, <<"Bearer", "adm">>, <<"Bearer", "jwt1">>, <<"Bearer", "bad">>,
     <<"Basic", "adm">>, <<"Bearer", "">>}
TokenCookies == {"", "adm"}
Paths == {<<"admin", "products">>, <<"admin", "api", "orders", "cleanup">>}

Requests ==
    [sessionCookie : SessionIds, authHeader : AuthHeaders,
     tokenCookie : TokenCookies, path : Paths,
     xhr : BOOLEAN, acceptJSON : BOOLEAN]

\* s.sessionManager.ValidateSession(sessionID, clientIP, userAgent): err == nil
ValidateSession(srv, sessionID) == sessionID \in srv.sessions

\* s.jwtService.ValidateToken(token): err == nil
ValidateToken(srv, token) == token \in srv.jwts

\* "Authorization: Bearer <token>", else the admin_token cookie
RequestToken(req) ==
    LET parts == req.authHeader
        bearer == IF Len(parts) = 2 /\ parts[1] = "Bearer" THEN parts[2] ELSE ""
    IN  IF bearer # "" THEN bearer ELSE req.tokenCookie

\* a legacy check that compares the token without asking that there is one
LegacyTokenAny(srv, token) == token = srv.adminToken

\* if token != "" { ... if token == s.adminToken { ... } }
LegacyToken(srv, token) == token # "" /\ token = srv.adminToken

\* strings.HasPrefix(path, "/api/") || X-Requested-With || Accept json
WantsJSON(req) ==
    \/ (Len(req.path) >= 2 /\ req.path[1] = "api")
    \/ req.xhr
    \/ req.acceptJSON

\* the middleware for one request: what it leaves in the context and whether
\* c.Next() ran the protected handler
AuthMiddleware(srv, req) ==
    LET token == RequestToken(req)
    IN  IF /\ srv.sessionManager
           /\ req.sessionCookie # ""
           /\ ValidateSession(srv, req.sessionCookie)
        THEN [ran |-> TRUE, status |-> 200, location |-> "", role |-> "session"]
        ELSE IF token # "" /\ srv.jwtService /\ ValidateToken(srv, token)
        THEN [ran |-> TRUE, status |-> 200, location |-> "", role |-> "jwt"]
        ELSE IF LegacyToken(srv, token)
        THEN [ran |-> TRUE, status |-> 200, location |-> "", role |-> "admin"]
        ELSE IF WantsJSON(req)
        THEN [ran |-> FALSE, status |-> 401, location |-> "", role |-> ""]
        ELSE [ran |-> FALSE, status |-> 302, location |-> "/", role |-> ""]

\* one request to a route of the /admin group
AdminRequest(req) ==
    /\ LET out == AuthMiddleware(web, req)
       IN  web' = [web EXCEPT !.req = req, !.served = 1,
                              !.ran = out.ran, !.status = out.status,
                              !.location = out.location, !.role = out.role]
    /\ UNCHANGED <<strategy, dbVars, faultsLeft, calls, shopVars,
                   orderTxVars, botVars>>

InitAuth ==
    /\ strategy = "sqlite"
    /\ codes = [r \in CodeIds |-> NewCode(r, 1)]
    /\ lockedBy = [r \in CodeIds |-> 0]
    /\ writer = 0
    /\ faultsLeft = MaxFaults
    /\ calls = [c \in Calls |-> IdleCall]
    /\ orders = <<>>
    /\ balance = [u \in Users |-> 0]
    /\ buyers = [b \in Calls |-> IdleBuyer]
    /\ \E adminToken \in {"adm", ""}, hasSM \in BOOLEAN, hasJWT \in BOOLEAN,
          sessions \in SUBSET {"s1"}, jwts \in SUBSET {"jwt1"} :
          web = NewServer(adminToken, hasSM, sessions, hasJWT, jwts)
    /\ InitOrderTx
    /\ InitBot

NextAuth == \E req \in Requests : AdminRequest(req)

SpecAuth == InitAuth /\ [][NextAuth]_vars

\* ------------------------------------------- Bot: the custom deposit
MaxPrompts == 1
MinDepositCents == 100
MaxDepositCents == 1000000

\* the texts a user sends
Texts == {"Buy", "/language", "cancel", "abc", "-5", "0.5", "30", "1.15", "10001"}

\* the switch of handleTextMessage over button texts and commands
IsMenuText(text) ==
    text \in {"Buy", "Deposit", "Profile", "Orders", "My Orders", "FAQ",
              "Support", "/language", "/ticket", "/support"}

\* amountStr == "/cancel" || ... || amountStr == "cancel"
IsCancelText(text) == text \in {"/cancel", "cancel"}

\* strconv.ParseFloat(amountStr, 64): err != nil, else the sign of the value
ParseFloat(text) ==
    CASE text \in {"0.5", "30", "1.15", "10001"} -> [err |-> FALSE, sign |-> 1]
      [] text = "-5" -> [err |-> FALSE, sign |-> 0 - 1]
      [] OTHER -> [err |-> TRUE, sign |-> 0]

\* int(amount * 100) on float64: the product is rounded to a double and then
\* cut off (1.15 * 100 is 114.99999999999999)
AmountCents(text) ==
    CASE text = "0.5" -> 50
      [] text = "30" -> 3000
      [] text = "1.15" -> 114
      [] text = "10001" -> 1000100
      [] text = "-5" -> 0 - 500
      [] OTHER -> 0

\* CreateDepositOrder: no product, PaymentAmount = AmountCents, "pending"
CreateDepositOrder(id, u, amountCents) ==
    [id |-> id, user_id |-> u, product_id |-> 0, amount_cents |-> amountCents,
     payment_amount |-> amountCents, balance_used |-> 0,
     status |-> "pending", paid_at |-> 0, delivered_at |-> 0]

\* callback deposit_custom: b.userStates[id] = "awaiting_deposit_amount"
DepositCustom(u) ==
    /\ prompts < MaxPrompts
    /\ prompts' = prompts + 1
    /\ userStates' = [userStates EXCEPT ![u] = "awaiting_deposit_amount"]
    /\ UNCHANGED <<strategy, dbVars, faultsLeft, calls, shopVars, web, otx, texts>>

\* startPolling: go b.handleUpdate(update) for a text message
TextArrives(g, u, text) ==
    /\ texts[g].pc = "idle"
    /\ \A d \in Calls : d < g => texts[d].pc # "idle"
    /\ texts' = [texts EXCEPT ![g] =
                    [IdleText EXCEPT !.pc = "switch", !.from = u, !.text = text]]
    /\ UNCHANGED <<strategy, dbVars, faultsLeft, calls, shopVars, web, otx,
                   userStates, prompts>>

\* handleTextMessage, a button text or command: b.clearUserState, then the menu
TextMenu(g) ==
    /\ texts[g].pc = "switch"
    /\ IsMenuText(texts[g].text)
    /\ userStates' = [userStates EXCEPT ![texts[g].from] = ""]
    /\ texts' = [texts EXCEPT ![g].pc = "done", ![g].outcome = "menu"]
    /\ UNCHANGED <<strategy, dbVars, faultsLeft, calls, shopVars, web, otx, prompts>>

\* handleTextMessage: userState, hasState := b.userStates[id] under RLock
TextCheckState(g) ==
    /\ texts[g].pc = "switch"
    /\ ~IsMenuText(texts[g].text)
    /\ texts' = IF userStates[texts[g].from] = "awaiting_deposit_amount"
                THEN [texts EXCEPT ![g].pc = "custom"]
                ELSE [texts EXCEPT ![g].pc = "done", ![g].outcome = "other"]
    /\ UNCHANGED <<strategy, dbVars, faultsLeft, calls, shopVars, web, otx,
                   userStates, prompts>>

\* handleCustomDepositAmount: delete(b.userStates, id) under Lock
CustomClear(g) ==
    /\ texts[g].pc = "custom"
    /\ userStates' = [userStates EXCEPT ![texts[g].from] = ""]
    /\ texts' = [texts EXCEPT ![g].pc = "parse"]
    /\ UNCHANGED <<strategy, dbVars, faultsLeft, calls, shopVars, web, otx, prompts>>

\* handleCustomDepositAmount from the parse on: cancel clears the state, a
\* text that is no amount within the limits sets the state again, an amount
\* within the limits creates the deposit order
CustomAmount(g) ==
    /\ texts[g].pc = "parse"
    /\ LET u == texts[g].from
           text == texts[g].text
           amount == ParseFloat(text)
           amountCents == AmountCents(text)
           id == Len(orders) + 1
       IN  IF IsCancelText(text)
           THEN /\ userStates' = [userStates EXCEPT ![u] = ""]
                /\ texts' = [texts EXCEPT ![g].pc = "done", ![g].outcome = "cancelled"]
                /\ UNCHANGED orders
           ELSE IF \/ amount.err \/ amount.sign <= 0
                   \/ amountCents < MinDepositCents
                   \/ amountCents > MaxDepositCents
           THEN /\ userStates' = [userStates EXCEPT ![u] = "awaiting_deposit_amount"]
                /\ texts' = [texts EXCEPT ![g].pc = "done", ![g].outcome = "retry"]
                /\ UNCHANGED orders
           ELSE /\ orders' = Append(orders, CreateDepositOrder(id, u, amountCents))
                /\ texts' = [texts EXCEPT ![g].pc = "done", ![g].outcome = "ordered",
                                          ![g].created = id]
                /\ UNCHANGED userStates
    /\ UNCHANGED <<strategy, dbVars, faultsLeft, calls, balance, buyers, web, otx,
                   prompts>>

\* GetOrCreateUser or CreateDepositOrder fails: the handler returns, with the
\* state already deleted
CustomFailure(g) ==
    /\ texts[g].pc = "parse"
    /\ faultsLeft > 0
    /\ faultsLeft' = faultsLeft - 1
    /\ texts' = [texts EXCEPT ![g].pc = "done", ![g].outcome = "failed"]
    /\ UNCHANGED <<strategy, dbVars, calls, shopVars, web, otx, userStates, prompts>>

InitDeposit ==
    /\ strategy = "sqlite"
    /\ codes = [r \in CodeIds |-> NewCode(r, 1)]
    /\ lockedBy = [r \in CodeIds |-> 0]
    /\ writer = 0
    /\ faultsLeft = MaxFaults
    /\ calls = [c \in Calls |-> IdleCall]
    /\ orders = <<>>
    /\ balance = [u \in Users |-> 0]
    /\ buyers = [b \in Calls |-> IdleBuyer]
    /\ InitOthers

NextDeposit ==
    \/ \E u \in Users : DepositCustom(u)
    \/ \E g \in Calls, u \in Users, text \in Texts : TextArrives(g, u, text)
    \/ \E g \in Calls : TextMenu(g)
    \/ \E g \in Calls : TextCheckState(g)
    \/ \E g \in Calls : CustomClear(g)
    \/ \E g \in Calls : CustomAmount(g)
    \/ \E g \in Calls : CustomFailure(g)

SpecDeposit == InitDeposit /\ [][NextDeposit]_vars

\* a user who sends the next text after the answer to the one before
TextArrivesAlone(g, u, text) ==
    /\ \A d \in Calls : texts[d].pc \in {"idle", "done"}
    /\ TextArrives(g, u, text)

NextDepositSeq ==
    \/ \E u \in Users : DepositCustom(u)
    \/ \E g \in Calls, u \in Users, text \in Texts : TextArrivesAlone(g, u, text)
    \/ \E g \in Calls : TextMenu(g)
    \/ \E g \in Calls : TextCheckState(g)
    \/ \E g \in Calls : CustomClear(g)
    \/ \E g \in Calls : CustomAmount(g)
    \/ \E g \in Calls : CustomFailure(g)

SpecDepositSeq == InitDeposit /\ [][NextDepositSeq]_vars

\* ======================================================== the properties
Returned(c) == calls[c].pc = "returned"
Succeeded(c) == Returned(c) /\ calls[c].err = "nil"
RowsOfOrder(o) == {r \in CodeIds : codes[r].order_id = o}
RowsOfProduct(p) == {r \in CodeIds : codes[r].product_id = p}
Returns(c) == calls[c].pc # "returned" /\ calls'[c].pc = "returned"

\* C1 - mutual exclusion: no code row is handed to two successful calls that
\* were issued with distinct order IDs, whatever the interleaving and on
\* either strategy
C1_MutualExclusion ==
    \A r \in CodeIds : \A a, b \in Calls :
        ( /\ a # b
          /\ Succeeded(a) /\ calls[a].result = codes[r].code
          /\ Succeeded(b) /\ calls[b].result = codes[r].code )
        => calls[a].orderID = calls[b].orderID

C1_Witness ==
    \E a, b \in Calls :
        /\ a # b /\ Succeeded(a) /\ Succeeded(b)
        /\ calls[a].productID = calls[b].productID
        /\ calls[a].orderID # calls[b].orderID
        /\ calls[a].result # "" /\ calls[b].result # ""
        /\ calls[a].result # calls[b].result

\* C2 - exact success count: N unsold codes and N+K (K >= 1) calls with
\* distinct order IDs and no storage failure give exactly N successes with N
\* distinct codes and exactly K ErrNoStock failures
C2_ExactSuccessCount ==
    \A p \in Products :
        LET n == Cardinality(RowsOfProduct(p))
            ok == {c \in Calls : Succeeded(c)}
            noStock == {c \in Calls : Returned(c) /\ calls[c].err = "ErrNoStock"}
        IN  ( /\ \A c \in Calls : Returned(c) /\ calls[c].productID = p
              /\ \A a, b \in Calls : a # b => calls[a].orderID # calls[b].orderID
              /\ faultsLeft = MaxFaults
              /\ NumCalls > n )
            => /\ Cardinality(ok) = n
               /\ Cardinality({calls[c].result : c \in ok}) = n
               /\ Cardinality(noStock) = NumCalls - n

\* C3 - zero stock: a call that returns while its product has no unsold row
\* fails with ErrNoStock (no nil error; a storage error only when the storage
\* failed) and changes no row
C3_ZeroStock ==
    [][\A c \in Calls :
          ( /\ Returns(c)
            /\ Unsold(codes, calls[c].productID) = {}
            /\ calls'[c].err # "storage" )
          => (calls'[c].err = "ErrNoStock" /\ codes' = codes)]_vars

\* C4 - binding: a call that returned with nil error returned the payload of
\* a row that is sold, bound to the call's order and stamped
C4_Binding ==
    \A c \in Calls :
        Succeeded(c) =>
            \E r \in CodeIds :
                /\ codes[r].code = calls[c].result
                /\ codes[r].is_sold
                /\ codes[r].order_id = calls[c].orderID
                /\ codes[r].sold_at # 0

\* C5 - in the checkout flow every order has at most one code row bound to it
C5_OneCodePerOrder ==
    \A o \in DOMAIN orders : Cardinality(RowsOfOrder(o)) <= 1

C5_Witness ==
    \E a, b \in DOMAIN orders :
        /\ a # b
        /\ orders[a].product_id = orders[b].product_id
        /\ Cardinality(RowsOfOrder(a)) = 1
        /\ Cardinality(RowsOfOrder(b)) = 1

\* C6 - no double bind: claims repeated for one order never leave two code
\* rows that reference the same order
C6_NoDoubleBind ==
    \A o \in OrderIds : Cardinality(RowsOfOrder(o)) <= 1

\* C7 - frame: a call returning nil changed exactly one row (to sold, stamped,
\* bound to its order), a failing call changed none, and no other step
\* changes a committed row
C7_Frame ==
    [][/\ \A c \in Calls :
             Returns(c) =>
                IF calls'[c].err = "nil"
                THEN \E r \in CodeIds :
                        /\ codes'[r] # codes[r]
                        /\ codes'[r] = [codes[r] EXCEPT !.is_sold = TRUE,
                                           !.sold_at = codes'[r].sold_at,
                                           !.order_id = calls[c].orderID]
                        /\ codes'[r].sold_at # 0
                        /\ \A q \in CodeIds : q # r => codes'[q] = codes[q]
                ELSE codes' = codes
       /\ (\A c \in Calls : ~Returns(c)) => codes' = codes]_vars

\* C8 - lifecycle: a sold row never changes again, and no transaction takes a
\* sold row as the row it writes
C8_Lifecycle ==
    [][\A r \in CodeIds :
          /\ codes[r].is_sold => codes'[r] = codes[r]
          /\ \A c \in Calls :
                (calls'[c].wrote.id = r /\ calls[c].wrote.id # r)
                => ~codes[r].is_sold]_vars

C8_Witness ==
    \E r \in CodeIds : \E c \in Calls :
        /\ codes[r].is_sold
        /\ Returned(c)
        /\ calls[c].productID = codes[r].product_id
        /\ Timestamp(c) > codes[r].sold_at

\* C9 - delivered implies bound: an order is delivered only if a sold code
\* row is bound to it
C9_DeliveredImpliesBound ==
    \A o \in DOMAIN orders :
        orders[o].status = "delivered" =>
            \E r \in CodeIds : codes[r].is_sold /\ codes[r].order_id = o

C11_CancelRollsBack ==
    [][\A c \in Calls :
          (Returns(c) /\ calls[c].ctxDone)
          => /\ calls'[c].err \notin {"nil", "ErrNoStock"}
             /\ codes' = codes]_vars

\* C12 - liveness: with fair scheduling and no storage failure every claim
\* that began returns, and a claim that began while its product had an
\* unsold row not locked by a competitor is followed by some claim of that
\* product succeeding with a code
C12_Liveness ==
    \A c \in Calls :
        /\ (calls[c].pc = "begin") ~> Returned(c)
        /\ ( /\ calls[c].pc = "begin"
             /\ SkipLocked(Unsold(codes, calls[c].productID), lockedBy) # {} )
           ~> (\E d \in Calls :
                  /\ Succeeded(d)
                  /\ calls[d].productID = calls[c].productID
                  /\ calls[d].result # "")

C12_Witness ==
    \E c, d \in Calls :
        /\ c # d
        /\ calls[c].productID = calls[d].productID
        /\ Succeeded(c) /\ calls[c].result # ""
        /\ Returned(d)
        /\ faultsLeft = MaxFaults

\* C13 - ErrNoStock soundness: ErrNoStock is returned only when the product
\* has no unsold row that is free of a competitor's lock, and every result is
\* a code of the table with nil error, ErrNoStock with no code, or another
\* error with no code
C13_ErrNoStockSound ==
    [][\A c \in Calls :
          Returns(c) =>
             /\ calls'[c].err = "ErrNoStock"
                => SkipLocked(Unsold(codes, calls[c].productID), lockedBy) = {}
             /\ \/ /\ calls'[c].err = "nil"
                   /\ \E r \in CodeIds : codes[r].code = calls'[c].result
                \/ calls'[c].err = "ErrNoStock" /\ calls'[c].result = ""
                \/ calls'[c].err = "storage" /\ calls'[c].result = ""]_vars

\* C14 - post-race bijection: once every call of a batch for one product with
\* distinct order IDs has returned, each successful order has exactly one
\* sold row, each sold row belongs to exactly one successful order, failed
\* orders have no row, and there are as many sold rows as successful calls
C14_PostRaceBijection ==
    \A p \in Products :
        LET ok == {c \in Calls : Succeeded(c)}
            sold == {r \in RowsOfProduct(p) : codes[r].is_sold}
        IN  ( /\ \A c \in Calls : Returned(c) /\ calls[c].productID = p
              /\ \A a, b \in Calls : a # b => calls[a].orderID # calls[b].orderID )
            => /\ \A c \in ok :
                     Cardinality({r \in sold : codes[r].order_id = calls[c].orderID}) = 1
               /\ \A r \in sold :
                     Cardinality({c \in ok : calls[c].orderID = codes[r].order_id}) = 1
               /\ \A c \in Calls \ ok : RowsOfOrder(calls[c].orderID) = {}
               /\ Cardinality(sold) = Cardinality(ok)

\* C15 - lock-and-skip exclusion: on PostgreSQL two transactions in flight
\* never hold the same selected row; the locking read never waits, takes only
\* a row no competitor holds, and comes back empty only when there is none
InPgTx(c) == IsPostgres /\ calls[c].pc \in {"pg_selected", "pg_updated"}

C15_LockAndSkip ==
    /\ [](\A a, b \in Calls :
            (a # b /\ InPgTx(a) /\ InPgTx(b) /\ calls[a].code.id # 0)
            => calls[a].code.id # calls[b].code.id)
    /\ [](\A c \in Calls :
            (IsPostgres /\ calls[c].pc = "begin") => ENABLED PgSelect(c))
    /\ [][\A c \in Calls :
            (calls[c].pc = "begin" /\ calls'[c].pc = "pg_selected")
            => LET free == {r \in Unsold(codes, calls[c].productID) :
                               \A d \in Calls \ {c} :
                                  ~(InPgTx(d) /\ calls[d].code.id = r)}
               IN  IF free = {} THEN calls'[c].code.id = 0
                   ELSE calls'[c].code.id \in free]_vars

C15_Witness ==
    \E a, b \in Calls :
        /\ a # b /\ InPgTx(a) /\ InPgTx(b)
        /\ calls[a].productID = calls[b].productID
        /\ calls[a].code.id # 0 /\ calls[b].code.id # 0
        /\ calls[a].code.id # calls[b].code.id
        /\ calls[a].pc = "pg_updated"

\* C16 - lock-and-skip empty result: a PostgreSQL call whose locking read
\* returned no row fails with ErrNoStock, returns no code and changes no row
C16_EmptyReadNoStock ==
    [][\A c \in Calls :
          ( /\ IsPostgres /\ Returns(c)
            /\ calls[c].pc # "begin"
            /\ calls[c].code.id = 0
            /\ calls'[c].err # "storage" )
          => /\ calls'[c].err = "ErrNoStock"
             /\ calls'[c].result = ""
             /\ codes' = codes]_vars

\* C17 - atomic-update read-back: a SQLite call that updated no row returns
\* ErrNoStock, and one that updated a row and returns nil returns the payload
\* of that very row
C17_ReadBack ==
    [][\A c \in Calls :
          (~IsPostgres /\ Returns(c)) =>
             IF calls[c].wrote.id = 0
             THEN calls'[c].err \in {"ErrNoStock", "storage"}
             ELSE calls'[c].err = "nil"
                  => calls'[c].result = calls[c].wrote.code]_vars

\* C18 - no retry: a claim runs its transaction once (its position never
\* goes back), no two claims are made for one order, and once the order is
\* failed_delivery or delivered its claim stays as it returned
ClaimRank(pc) ==
    CASE pc = "idle" -> 0
      [] pc = "begin" -> 1
      [] pc \in {"pg_selected", "sq_updated"} -> 2
      [] pc \in {"pg_updated", "sq_fetched"} -> 3
      [] pc = "returned" -> 4

C19_ErrorKindPropagation ==
    \A b \in Calls :
        (buyers[b].pc = "done" /\ calls[b].pc = "returned") =>
            /\ calls[b].err = "ErrNoStock" => buyers[b].msg = "no_stock"
            /\ calls[b].err = "storage" => buyers[b].msg # "no_stock"

\* C20 - sell-out race: a buyer whose claim bound no row to the order ends
\* with the no_stock message and the order failed_delivery, and a delivery
\* message always carries a non-empty code of a row bound to that order
C20_SellOutRace ==
    \A b \in Calls :
        (buyers[b].pc = "done" /\ calls[b].pc = "returned") =>
            LET o == buyers[b].order
            IN  /\ RowsOfOrder(o) = {}
                   => /\ buyers[b].msg = "no_stock"
                      /\ orders[o].status = "failed_delivery"
                /\ buyers[b].msg = "order_paid"
                   => /\ buyers[b].msgCode # ""
                      /\ \E r \in RowsOfOrder(o) : codes[r].code = buyers[b].msgCode

\* C21 - claim/order separation: no step of a claim in flight writes an order;
\* an order's status is written only after its claim returned and in a step
\* that writes no code row; a row once sold stays sold when the later order
\* update fails
C21_ClaimOrderSeparation ==
    [][/\ \A c \in Calls :
             (calls[c].pc # "idle" /\ calls'[c] # calls[c]) => orders' = orders
       /\ \A b \in Calls :
             LET o == buyers[b].order
             IN  (o \in DOMAIN orders /\ orders'[o] # orders[o])
                 => /\ buyers[b].pc = "claiming"
                    /\ calls[b].pc = "returned"
                    /\ codes' = codes
       /\ codes' # codes => orders' = orders
       /\ \A b \in Calls :
             (buyers[b].pc = "claiming" /\ buyers'[b].pc = "done")
             => codes' = codes]_vars

C21_Witness ==
    \E b \in Calls :
        /\ buyers[b].pc = "done" /\ buyers[b].msg = "order_paid"
        /\ LET o == buyers[b].order
           IN  /\ orders[o].status # "delivered"
               /\ orders[o].delivered_at = 0
               /\ \E r \in RowsOfOrder(o) :
                     codes[r].is_sold /\ codes[r].code = buyers[b].msgCode

C23_StrategyEquivalence ==
    \A c \in Calls :
        Returned(c) =>
            LET p == calls[c].productID
                before == {d \in Calls : d < c /\ calls[d].productID = p}
                done == {d \in Calls : Returned(d) /\ calls[d].productID = p}
                stock == Cardinality(RowsOfProduct(p))
                sold == {r \in RowsOfProduct(p) : codes[r].is_sold}
                served == IF Cardinality(done) < stock
                          THEN Cardinality(done) ELSE stock
            IN  /\ IF Cardinality(before) < stock
                   THEN /\ calls[c].err = "nil"
                        /\ \E r \in sold :
                              /\ codes[r].code = calls[c].result
                              /\ codes[r].order_id = calls[c].orderID
                   ELSE calls[c].err = "ErrNoStock" /\ calls[c].result = ""
                /\ Cardinality(sold) = served

\* C24 - product isolation: a call changes only rows of its own product (and
\* so no other product's unsold count), and the code a call returns with nil
\* error is the payload of a row of its product
C24_ProductIsolation ==
    [][\A c \in Calls :
          /\ (calls[c].pc # "idle" /\ calls'[c] # calls[c])
             => /\ \A r \in CodeIds :
                      codes'[r] # codes[r] => codes[r].product_id = calls[c].productID
                /\ \A p \in Products \ {calls[c].productID} :
                      Cardinality(Unsold(codes', p)) = Cardinality(Unsold(codes, p))
          /\ (Returns(c) /\ calls'[c].err = "nil")
             => \E r \in RowsOfProduct(calls[c].productID) :
                   codes'[r].code = calls'[c].result]_vars

\* C25 - no charge against empty stock: the checkout creates an order, and
\* takes balance for it, only while the order's product has an unsold code
C25_NoChargeOnEmptyStock ==
    [][Len(orders') > Len(orders)
       => LET order == orders'[Len(orders')]
          IN  CountAvailableCodes(order.product_id) >= 1]_vars

\* C26 - order status transitions: an order's status changes only from
\* pending to paid or from paid to delivered or failed_delivery, and a claim
\* begins only for an order with payment_amount 0
C26_StatusTransitions ==
    [][/\ \A o \in DOMAIN orders :
             orders'[o].status # orders[o].status
             => \/ orders[o].status = "pending" /\ orders'[o].status = "paid"
                \/ /\ orders[o].status = "paid"
                   /\ orders'[o].status \in {"delivered", "failed_delivery"}
       /\ \A b \in Calls :
             (calls[b].pc = "idle" /\ calls'[b].pc = "begin")
             => orders'[calls'[b].orderID].payment_amount = 0]_vars

\* C27 - balance split arithmetic: with B the balance the call read, every
\* order row of CreateOrderWithBalance has balance_used + payment_amount =
\* amount_cents, 0 <= balance_used <= amount_cents, balance_used <= max(B, 0),
\* balance_used = min(B, amount_cents) when balance is used and B > 0, and
\* balance_used = 0 otherwise
C27_BalanceSplit ==
    \A t \in Calls :
        otx[t].pc \in {"created", "deducted", "ready", "returned"}
        /\ otx[t].order.status # "" =>
            LET o == otx[t].order
                B == otx[t].user
                a == otx[t].amountCents
            IN  /\ o.amount_cents = a
                /\ o.balance_used + o.payment_amount = a
                /\ 0 <= o.balance_used /\ o.balance_used <= a
                /\ o.balance_used <= (IF B > 0 THEN B ELSE 0)
                /\ (otx[t].useBalance /\ B > 0)
                   => o.balance_used = (IF B < a THEN B ELSE a)
                /\ (~otx[t].useBalance \/ B <= 0)
                   => (o.balance_used = 0 /\ o.payment_amount = a)

C27_Witness ==
    \E t \in Calls :
        /\ otx[t].pc = "returned" /\ otx[t].err = "nil"
        /\ otx[t].order.balance_used > 0
        /\ otx[t].order.payment_amount > 0

\* C28 - CreateOrderWithBalance atomicity: a call that fails persists no
\* order, leaves every balance as it was and returns nil; a call that
\* succeeds adds its order row and takes balance_used from the balance in one
\* step; no other step of a call writes either; the persisted row is paid
\* with paid_at set exactly when balance_used > 0 and payment_amount = 0, and
\* pending otherwise
C28_OrderAtomicity ==
    [][\A t \in Calls :
          otx'[t] # otx[t] =>
             IF otx'[t].pc = "returned" /\ otx'[t].err = "nil"
             THEN LET row == otx'[t].order
                      u == row.user_id
                  IN  /\ orders' = Append(orders, row)
                      /\ otx'[t].result = Len(orders')
                      /\ balance'[u] = balance[u] - row.balance_used
                      /\ IF row.balance_used > 0 /\ row.payment_amount = 0
                         THEN row.status = "paid" /\ row.paid_at # 0
                         ELSE row.status = "pending" /\ row.paid_at = 0
             ELSE /\ orders' = orders
                  /\ balance' = balance
                  /\ otx'[t].pc = "returned" => otx'[t].result = 0]_vars

C28_Witness ==
    \E t, d \in Calls :
        /\ otx[t].pc = "returned" /\ otx[t].err = "storage"
        /\ otx[t].deducted > 0
        /\ otx[d].pc = "returned" /\ otx[d].err = "nil"
        /\ otx[d].order.status = "paid"

\* the amount in cents that a text denotes when it is a decimal number
DenotedCents(text) ==
    CASE text = "0.5" -> 50
      [] text = "30" -> 3000
      [] text = "1.15" -> 115
      [] text = "10001" -> 1000100
      [] text = "-5" -> 0 - 500
      [] OTHER -> 0

IsNumberText(text) == text \in {"-5", "0.5", "30", "1.15", "10001"}

DepositOrders == {o \in DOMAIN orders : orders[o].product_id = 0}

\* C29 - custom-deposit state machine: awaiting_deposit_amount is entered
\* through the deposit_custom callback (or kept by the handler of a rejected
\* text); in that state a button text or command clears it with no order, a
\* cancel text clears it with no order, a text that is no positive number or
\* is outside 100..1000000 cents leaves it set with no order, and an amount
\* within the limits clears it and creates one deposit order of that amount
C29_DepositStateMachine ==
    [][\A u \in Users :
          /\ (userStates[u] # "awaiting_deposit_amount"
              /\ userStates'[u] = "awaiting_deposit_amount")
             => \/ prompts' = prompts + 1
                \/ \E g \in Calls : texts[g].pc = "parse" /\ texts'[g].outcome = "retry"
          /\ \A g \in Calls :
                LET text == texts[g].text
                    cents == DenotedCents(text)
                IN  /\ ( /\ texts[g].pc = "switch" /\ texts'[g].pc = "done"
                         /\ texts[g].from = u
                         /\ userStates[u] = "awaiting_deposit_amount"
                         /\ text \in {"Buy", "/language"} )
                       => userStates'[u] = "" /\ orders' = orders
                    /\ ( /\ texts[g].pc = "parse" /\ texts'[g].pc = "done"
                         /\ texts[g].from = u
                         /\ texts'[g].outcome # "failed" )
                       => IF text = "cancel"
                          THEN userStates'[u] = "" /\ orders' = orders
                          ELSE IF \/ ~IsNumberText(text) \/ cents <= 0
                                  \/ cents < 100 \/ cents > 1000000
                          THEN /\ userStates'[u] = "awaiting_deposit_amount"
                               /\ orders' = orders
                          ELSE /\ userStates'[u] = ""
                               /\ Len(orders') = Len(orders) + 1
                               /\ orders'[Len(orders')].product_id = 0
                               /\ orders'[Len(orders')].user_id = u
                               /\ orders'[Len(orders')].amount_cents = cents]_vars

\* C30 - single consumption of the deposit prompt: there are never more
\* deposit orders than deposit_custom prompts were given
C30_SinglePromptSingleOrder ==
    Cardinality(DepositOrders) <= prompts

====
